---- MODULE Spec2Model ----
(***************************************************************************)
(* Responder side of the DCAP mutual remote attestation key exchange:      *)
(* the C boundary of sgx_dcap/tkey_exchange (capi/responder.rs) over the   *)
(* Responder session it drives.                                            *)
(*                                                                         *)
(* The machine is scaled down: addresses are 5 bits wide (usize), sizes    *)
(* 3 bits wide (u32), and every mem::size_of is a small number that keeps  *)
(* the order relations the boundary checks rely on.  Keys, hashes and MACs *)
(* are small integers computed by fixed functions, so that equal inputs    *)
(* give equal values and a comparison can fail.                            *)
(***************************************************************************)
EXTENDS Integers, Sequences, FiniteSets, TLC

\* ------------------------------------------------------------------ bounds
\* Number of context slots the allocator hands out.
MaxCtx == 1
\* Width of a MAC in bits.
MacBits == 2

\* ------------------------------------------------------- machine and sizes
UsizeMax == 31
U32Max == 7
EnclaveBase == 8
EnclaveSize == 12

SizeMsg1 == 2
SizeTargetInfo == 2
SizeEcKey == 2
SizeReport == 2
SizeNonce == 2
SizeMsg2 == 2
SizeMsg3 == 2
SizeQuote3 == 2
SizeQvResult == 2
SizeIdentity == 2
SizeKey128 == 2

\* Configured quote length bounds (message codec).
QuoteMin == 2
QuoteMax == 4

\* Current trusted time (quote trust evaluator).
Now == 1

NULL == 0

U32(x) == x % (U32Max + 1)

\* ---------------------------------------------------- trust boundary checks
\* A region [p, p + n) lies entirely inside the enclave.
is_within_enclave(p, n) ==
    /\ p + n <= UsizeMax + 1
    /\ p >= EnclaveBase
    /\ p + n <= EnclaveBase + EnclaveSize

\* A region [p, p + n) lies entirely outside the enclave.
is_within_host(p, n) ==
    /\ p + n <= UsizeMax + 1
    /\ (p + n <= EnclaveBase \/ p >= EnclaveBase + EnclaveSize)

\* -------------------------------------------------------------- primitives
RECURSIVE Xor(_, _)
Xor(a, b) ==
    IF a = 0 /\ b = 0 THEN 0
    ELSE (((a % 2) + (b % 2)) % 2) + 2 * Xor(a \div 2, b \div 2)

RECURSIVE Pow2(_)
Pow2(n) == IF n = 0 THEN 1 ELSE 2 * Pow2(n - 1)

MacSpace == 0 .. (Pow2(MacBits) - 1)

\* Labels of the key derivation function.
KdfLabels == <<"SMK", "SK", "MK", "VK">>
LabelIndex(l) == CHOOSE i \in 1..4 : KdfLabels[i] = l

\* Private scalar of the ephemeral key pair generated for slot h, and its
\* public point (a fresh pair per context).
EcKeyGen(h) == h + 2
\* Diffie-Hellman agreement of the local private key and the peer's point.
DhShared(priv, peer) == priv * peer
\* Key derivation: one key per label from the one shared secret.
DeriveKey(shared, label) == shared * 4 + LabelIndex(label)
\* MAC of data under key.
Hmac(key, data) == ((key * 3) + (data * 5) + 1) % Pow2(MacBits)
\* Hash binding the two public keys.
HashKeys(ga, gb) == ga * 8 + gb

\* ------------------------------------------------------------ status codes
Statuses == {"Success", "InvalidParameter", "InvalidState", "CryptoFailure",
             "ReportMismatch", "InvalidQuote", "SizeMismatch", "MacMismatch",
             "MacVerifyFailed", "QuoteNotTrusted", "QuoteExpired",
             "BindingMismatch"}

Ok(s, v) == [ok |-> TRUE, err |-> "Success", s |-> s, val |-> v]
Err(s, e) == [ok |-> FALSE, err |-> e, s |-> s, val |-> <<>>]

\* ------------------------------------------------------------ the session
States == <<"Created", "Msg1Processed", "Msg2Sent", "Msg3Verified", "Closed">>
Rank(st) == CHOOSE i \in 1..5 : States[i] = st

Verdicts == {"Ok", "SwHardeningNeeded", "Revoked"}
AcceptedTiers == {"Ok", "SwHardeningNeeded"}
KeyTypes == {"SK", "MK", "VK"}

\* Responder::new: a fresh key pair, state Created.
NewResponder(h) ==
    [state |-> "Created", b |-> EcKeyGen(h), ga |-> 0, shared |-> 0,
     smk |-> 0, keys |-> <<0, 0, 0>>, id |-> 0, qv |-> "None"]

\* What no live context holds: a slot never handed out.
NoResponder ==
    [state |-> "None", b |-> 0, ga |-> 0, shared |-> 0,
     smk |-> 0, keys |-> <<0, 0, 0>>, id |-> 0, qv |-> "None"]

\* Drop of the Responder: the private key, the shared secret and every
\* derived key are overwritten with zeros, the session is Closed and its
\* memory released, so nothing of it remains.
DropResponder(s) ==
    [s EXCEPT !.state = "Closed", !.b = 0, !.shared = 0, !.smk = 0,
              !.keys = <<0, 0, 0>>, !.ga = 0, !.id = 0, !.qv = "None"]

process_msg1(s, ga, target) ==
    IF s.state # "Created" THEN Err(s, "InvalidState")
    ELSE IF ga = 0 THEN Err(s, "CryptoFailure")
    ELSE LET shared == DhShared(s.b, ga)
             t == [s EXCEPT !.ga = ga, !.shared = shared,
                            !.smk = DeriveKey(shared, "SMK"),
                            !.state = "Msg1Processed"]
         IN Ok(t, [pub_key |-> s.b,
                   report |-> [target |-> target, data |-> HashKeys(ga, s.b)],
                   nonce |-> s.b + ga])

generate_msg2(s, qe_report, quote_len) ==
    IF s.state # "Msg1Processed" THEN Err(s, "InvalidState")
    ELSE IF qe_report # HashKeys(s.ga, s.b) THEN Err(s, "ReportMismatch")
    ELSE IF ~(quote_len >= QuoteMin /\ quote_len <= QuoteMax)
         THEN Err(s, "InvalidQuote")
    ELSE Ok([s EXCEPT !.state = "Msg2Sent"],
            [pub_key_b |-> s.b, kdf_id |-> 1,
             mac |-> Hmac(s.smk, s.b * 2 + 1)])

\* The bytes of message 3 the MAC covers: echoed key, security properties
\* and the quote.
Msg3Data(m) == m.ga * 16 + m.quote.rd * 2 + m.quote.id

process_msg3(s, m, info) ==
    IF s.state # "Msg2Sent" THEN Err(s, "InvalidState")
    ELSE IF m.ga # s.ga THEN Err(s, "MacMismatch")
    ELSE IF m.mac # Hmac(s.smk, Msg3Data(m)) THEN Err(s, "MacVerifyFailed")
    ELSE LET k == [s EXCEPT !.keys = <<DeriveKey(s.shared, "SK"),
                                       DeriveKey(s.shared, "MK"),
                                       DeriveKey(s.shared, "VK")>>]
         IN IF info.qv \notin AcceptedTiers THEN Err(k, "QuoteNotTrusted")
            ELSE IF info.exp < Now THEN Err(k, "QuoteExpired")
            ELSE LET p == [k EXCEPT !.id = m.quote.id, !.qv = info.qv]
                 IN IF m.quote.rd # HashKeys(m.ga, s.b)
                    THEN Err(p, "BindingMismatch")
                    ELSE Ok([p EXCEPT !.state = "Msg3Verified"], p.id)

get_peer_identity(s) ==
    IF s.state # "Msg3Verified" THEN Err(s, "InvalidState")
    ELSE Ok(s, <<s.qv, s.id>>)

get_keys(s, key_type) ==
    IF Rank(s.state) < Rank("Msg3Verified") THEN Err(s, "InvalidState")
    ELSE IF key_type \notin KeyTypes THEN Err(s, "InvalidParameter")
    ELSE Ok(s, s.keys[LabelIndex(key_type) - 1])

\* ------------------------------------------------------- the message codec
\* DcapMRaMsg2::check_quote_len.
check_quote_len(quote_len) == quote_len >= QuoteMin /\ quote_len <= QuoteMax

\* DcapRaMsg3::from_slice over a slice of len bytes whose header declares
\* quote_size: the header, then exactly quote_size bytes of quote.
from_slice(len, quote_size, m) ==
    IF ~check_quote_len(quote_size) THEN Err(<<>>, "SizeMismatch")
    ELSE IF len # SizeMsg3 + quote_size THEN Err(<<>>, "SizeMismatch")
    ELSE Ok(<<>>, m)

\* ------------------------------------------------------------ the boundary
Buf(name, p, n) == [buf |-> name, p |-> p, n |-> n]

\* What one boundary call did: the status it returned, whether it reached the
\* session operation, the caller buffers it read and wrote, the session after.
\* A buffer handed to the session operation counts as read.
Outcome(status, invoked, reads, writes, s) ==
    [status |-> status, invoked |-> invoked, reads |-> reads,
     writes |-> writes, s |-> s, val |-> <<>>]

\* The values a successful call stores through its output pointers.
Deliver(o, v) == [o EXCEPT !.val = v]

Reject(s, reads) == Outcome("InvalidParameter", FALSE, reads, {}, s)

\* Variants that drop the error of the session operation.
ProcMsg1Status_DropsErr(r) == "Success"
GetMsg2Status_DropsErr(r) == "Success"
ProcMsg3Status_DropsErr(r) == "Success"
GetPeerIdentityStatus_DropsErr(r) == "Success"
GetKeysStatus_DropsErr(r) == "Success"

\* match r { Ok(v) => v, Err(e) => return e }
ProcMsg1Status(r) == IF r.ok THEN "Success" ELSE r.err
GetMsg2Status(r) == IF r.ok THEN "Success" ELSE r.err
ProcMsg3Status(r) == IF r.ok THEN "Success" ELSE r.err
GetPeerIdentityStatus(r) == IF r.ok THEN "Success" ELSE r.err
GetKeysStatus(r) == IF r.ok THEN "Success" ELSE r.err

\* ---- sgx_mra_responder_init
sgx_mra_responder_init(h, in) ==
    IF in.context = NULL THEN Reject(NoResponder, {})
    ELSE IF ~in.keygen THEN Outcome("CryptoFailure", TRUE, {}, {}, NoResponder)
    ELSE Deliver(Outcome("Success", TRUE, {},
                         {Buf("context", in.context, 1)}, NewResponder(h)),
                 <<h>>)

\* ---- sgx_dcap_mra_proc_msg1
ProcMsg1NullOk(in) ==
    ~(in.msg1 = NULL \/ in.qe_target = NULL \/ in.pub_key_b = NULL
      \/ in.report = NULL \/ in.nonce = NULL)

\* Variant that forgets the region check of qe_target.
ProcMsg1RegionOk_SkipsTarget(in) ==
    ~(\/ ~is_within_enclave(in.msg1, SizeMsg1)
      \/ ~is_within_enclave(in.pub_key_b, SizeEcKey)
      \/ ~is_within_enclave(in.report, SizeReport)
      \/ ~is_within_enclave(in.nonce, SizeNonce))

ProcMsg1RegionOk(in) ==
    ~(\/ ~is_within_enclave(in.msg1, SizeMsg1)
      \/ ~is_within_enclave(in.qe_target, SizeTargetInfo)
      \/ ~is_within_enclave(in.pub_key_b, SizeEcKey)
      \/ ~is_within_enclave(in.report, SizeReport)
      \/ ~is_within_enclave(in.nonce, SizeNonce))

sgx_dcap_mra_proc_msg1(s, in) ==
    IF ~ProcMsg1NullOk(in) THEN Reject(s, {})
    ELSE IF ~ProcMsg1RegionOk(in) THEN Reject(s, {})
    ELSE LET reads == {Buf("msg1", in.msg1, SizeMsg1),
                       Buf("qe_target", in.qe_target, SizeTargetInfo)}
             r == process_msg1(s, in.ga, in.target)
         IN IF ~r.ok THEN Outcome(ProcMsg1Status(r), TRUE, reads, {}, r.s)
            ELSE Deliver(Outcome(ProcMsg1Status(r), TRUE, reads,
                                 {Buf("pub_key_b", in.pub_key_b, SizeEcKey),
                                  Buf("report", in.report, SizeReport),
                                  Buf("nonce", in.nonce, SizeNonce)}, r.s),
                         r.val)

\* ---- sgx_dcap_mra_get_msg2
GetMsg2NullOk(in) == ~(in.qe_report = NULL \/ in.msg2 = NULL)

\* Variant that also rejects the smallest message the check should admit.
GetMsg2SizeOk_OffByOne(in) ==
    ~(\/ UsizeMax - in.msg2 < in.len[1]
      \/ in.len[1] <= U32(SizeMsg2 + SizeQuote3))

GetMsg2SizeOk(in) ==
    ~(\/ UsizeMax - in.msg2 < in.len[1]
      \/ in.len[1] < U32(SizeMsg2 + SizeQuote3))

GetMsg2RegionOk(in) ==
    /\ (\/ is_within_enclave(in.msg2, in.len[1])
        \/ is_within_host(in.msg2, in.len[1]))
    /\ is_within_enclave(in.qe_report, SizeReport)

\* Variants that drop one of the two checks of the declared quote_size.
GetMsg2QuoteOk_NoRange(in) == in.len[1] = U32(SizeMsg2 + in.len[2])
GetMsg2QuoteOk_NoTotal(in) == check_quote_len(in.len[2])

GetMsg2QuoteOk(in) ==
    /\ check_quote_len(in.len[2])
    /\ in.len[1] = U32(SizeMsg2 + in.len[2])

\* The attested report the caller hands back: the one requested in step 1,
\* or another one.
QeReportOf(s, in) == HashKeys(s.ga, s.b) + in.repx

\* Variant that fills in the header of msg2 before it looks at the result.
GetMsg2Writes_BeforeMatch(r, in) == {Buf("msg2", in.msg2, SizeMsg2)}

\* c_msg2.mac, c_msg2.g_b, c_msg2.kdf_id are assigned after the match.
GetMsg2Writes(r, in) ==
    IF r.ok THEN {Buf("msg2", in.msg2, SizeMsg2)} ELSE {}

sgx_dcap_mra_get_msg2(s, in) ==
    IF ~GetMsg2NullOk(in) THEN Reject(s, {})
    ELSE IF ~GetMsg2SizeOk(in) THEN Reject(s, {})
    ELSE IF ~GetMsg2RegionOk(in) THEN Reject(s, {})
    ELSE LET hdr == {Buf("msg2", in.msg2, SizeMsg2)}
         IN IF ~GetMsg2QuoteOk(in) THEN Reject(s, hdr)
            ELSE LET reads == {Buf("msg2", in.msg2, SizeMsg2 + in.len[2]),
                               Buf("qe_report", in.qe_report, SizeReport)}
                     r == generate_msg2(s, QeReportOf(s, in), in.len[2])
                 IN IF ~r.ok
                    THEN Outcome(GetMsg2Status(r), TRUE, reads,
                                 GetMsg2Writes(r, in), r.s)
                    ELSE Deliver(Outcome(GetMsg2Status(r), TRUE, reads,
                                         GetMsg2Writes(r, in), r.s),
                                 r.val)

\* ---- sgx_dcap_mra_proc_msg3
ProcMsg3NullOk(in) ==
    /\ ~(in.msg3 = NULL \/ in.qve_nonce = NULL \/ in.qve_report = NULL)
    /\ ~(in.supp[1] = NULL /\ in.supp[2] # 0)
    /\ ~(in.supp[1] # NULL /\ in.supp[2] = 0)

ProcMsg3SizeOk(in) ==
    ~(\/ UsizeMax - in.msg3 < in.len[1]
      \/ in.len[1] < U32(SizeMsg3 + SizeQuote3))

ProcMsg3RegionOk(in) ==
    /\ (\/ is_within_enclave(in.msg3, in.len[1])
        \/ is_within_host(in.msg3, in.len[1]))
    /\ ~(\/ ~is_within_enclave(in.qve_nonce, SizeNonce)
         \/ ~is_within_enclave(in.qve_report, SizeReport))
    /\ ~(in.supp[1] # NULL /\ ~is_within_enclave(in.supp[1], in.supp[2]))

\* Variant that forms the slice from the declared quote_size.
Msg3SliceLen_Declared(in) == SizeMsg3 + in.len[2]

\* slice::from_raw_parts(msg3, msg3_size): the length of the slice parsed.
Msg3SliceLen(in) == in.len[1]

\* The message the peer put in the buffer: the echoed key, a quote whose
\* report data is off the bound hash by rdx, a MAC off the right one by macx.
Msg3Of(s, in) ==
    LET q == [rd |-> HashKeys(in.ga, s.b) + in.quote[1], id |-> in.quote[2]]
        body == [ga |-> in.ga, quote |-> q, mac |-> 0]
    IN [body EXCEPT !.mac = Xor(Hmac(s.smk, Msg3Data(body)), in.macx)]

QveReportInfo(in) ==
    [exp |-> in.exp, coll |-> in.coll, qv |-> in.qv]

sgx_dcap_mra_proc_msg3(s, in) ==
    IF ~ProcMsg3NullOk(in) THEN Reject(s, {})
    ELSE IF ~ProcMsg3SizeOk(in) THEN Reject(s, {})
    ELSE IF ~ProcMsg3RegionOk(in) THEN Reject(s, {})
    ELSE LET pre == {Buf("qve_nonce", in.qve_nonce, SizeNonce),
                     Buf("msg3", in.msg3, Msg3SliceLen(in))}
             msg3 == from_slice(Msg3SliceLen(in), in.len[2], Msg3Of(s, in))
         IN IF ~msg3.ok THEN Outcome(msg3.err, FALSE, pre, {}, s)
            ELSE LET reads == pre \cup {Buf("qve_report", in.qve_report, SizeReport)}
                          \cup (IF in.supp[1] # NULL
                                THEN {Buf("supplemental_data", in.supp[1], in.supp[2])}
                                ELSE {})
                     r == process_msg3(s, msg3.val, QveReportInfo(in))
                 IN Outcome(ProcMsg3Status(r), TRUE, reads, {}, r.s)

\* ---- sgx_mra_responder_get_peer_identity
\* Variant that checks the output pointers for null only.
GetPeerIdentityPtrOk_NullOnly(in) ==
    ~(in.qv_out = NULL \/ in.id_out = NULL)

GetPeerIdentityPtrOk(in) ==
    /\ ~(in.qv_out = NULL \/ in.id_out = NULL)
    /\ is_within_enclave(in.qv_out, SizeQvResult)
    /\ is_within_enclave(in.id_out, SizeIdentity)

sgx_mra_responder_get_peer_identity(s, in) ==
    IF ~GetPeerIdentityPtrOk(in) THEN Reject(s, {})
    ELSE LET r == get_peer_identity(s)
         IN IF ~r.ok THEN Outcome(GetPeerIdentityStatus(r), TRUE, {}, {}, r.s)
            ELSE Deliver(Outcome(GetPeerIdentityStatus(r), TRUE, {},
                                 {Buf("quote_verification_result", in.qv_out,
                                      SizeQvResult),
                                  Buf("enclave_identity", in.id_out,
                                      SizeIdentity)}, r.s),
                         r.val)

\* ---- sgx_mra_responder_get_keys
GetKeysPtrOk(in) ==
    /\ in.key # NULL
    /\ is_within_enclave(in.key, SizeKey128)

\* Variant that takes the Responder back without ManuallyDrop, so that it is
\* dropped when the function returns.
sgx_mra_responder_get_keys_Drops(s, in) ==
    IF ~GetKeysPtrOk(in) THEN Reject(s, {})
    ELSE LET r == get_keys(s, in.key_type)
         IN IF ~r.ok
            THEN Outcome(GetKeysStatus(r), TRUE, {}, {}, DropResponder(r.s))
            ELSE Deliver(Outcome(GetKeysStatus(r), TRUE, {},
                                 {Buf("key", in.key, SizeKey128)},
                                 DropResponder(r.s)),
                         <<r.val>>)

sgx_mra_responder_get_keys(s, in) ==
    IF ~GetKeysPtrOk(in) THEN Reject(s, {})
    ELSE LET r == get_keys(s, in.key_type)
         IN IF ~r.ok THEN Outcome(GetKeysStatus(r), TRUE, {}, {}, r.s)
            ELSE Deliver(Outcome(GetKeysStatus(r), TRUE, {},
                                 {Buf("key", in.key, SizeKey128)}, r.s),
                         <<r.val>>)

\* ---- sgx_mra_responder_close: drop(Responder::from_raw(context))
\* Variant that takes the Responder back as the other operations do, in a
\* ManuallyDrop, so that it is never dropped.
sgx_mra_responder_close_NoDrop(s) == Outcome("Success", TRUE, {}, {}, s)

sgx_mra_responder_close(s) ==
    Outcome("Success", TRUE, {}, {}, DropResponder(s))

\* ---- the order of the steps inside get_msg2 and proc_msg3
\* The steps a call executes, in the order of the code: each step with
\* whether the call goes on after it. The call executes the steps up to and
\* including the first that returns.
Executed(steps) ==
    LET stops == {i \in 1..Len(steps) : ~steps[i][2]}
        n == IF stops = {} THEN Len(steps)
             ELSE CHOOSE i \in stops : \A j \in stops : i <= j
    IN [i \in 1..n |-> steps[i][1]]

\* Variant that adds the declared quote_size to the header size before it
\* checks its range.
GetMsg2Steps_AddFirst(in) ==
    << <<"null", GetMsg2NullOk(in)>>,
       <<"size", GetMsg2SizeOk(in)>>,
       <<"region", GetMsg2RegionOk(in)>>,
       <<"read", TRUE>>,
       <<"add", in.len[1] = U32(SizeMsg2 + in.len[2])>>,
       <<"range", check_quote_len(in.len[2])>>,
       <<"slice", TRUE>>,
       <<"session", TRUE>> >>

\* null checks; overflow and minimum size; region tests; quote_size read from
\* the header; check_quote_len; msg2_size against header + quote_size; the
\* quote slice; from_raw and generate_msg2.
GetMsg2Steps(in) ==
    << <<"null", GetMsg2NullOk(in)>>,
       <<"size", GetMsg2SizeOk(in)>>,
       <<"region", GetMsg2RegionOk(in)>>,
       <<"read", TRUE>>,
       <<"range", check_quote_len(in.len[2])>>,
       <<"add", in.len[1] = U32(SizeMsg2 + in.len[2])>>,
       <<"slice", TRUE>>,
       <<"session", TRUE>> >>

\* null and supplemental-data checks; overflow and minimum size; region
\* tests; *qve_nonce read; the slice over msg3_size bytes; from_slice;
\* from_raw and process_msg3.
ProcMsg3Steps(in) ==
    << <<"null", ProcMsg3NullOk(in)>>,
       <<"size", ProcMsg3SizeOk(in)>>,
       <<"region", ProcMsg3RegionOk(in)>>,
       <<"read", TRUE>>,
       <<"slice", TRUE>>,
       <<"parse", from_slice(Msg3SliceLen(in), in.len[2], <<>>).ok>>,
       <<"session", TRUE>> >>

TraceOf(op, in) ==
    CASE op = "get_msg2" -> Executed(GetMsg2Steps(in))
      [] op = "proc_msg3" -> Executed(ProcMsg3Steps(in))
      [] OTHER -> <<>>

\* ------------------------------------------------------------- the inputs
\* Addresses a caller passes: null, host memory, straddling the enclave's
\* lower edge, inside, straddling its upper edge, and one so high that adding
\* a size overflows.
Ptrs == {NULL, 4, 7, 10, 19, 30}
\* The same for the fixed-size buffers, without the last two.
FixPtrs == {NULL, 4, 7, 10}

\* (delivered size, declared quote_size) of a message buffer.
\* Sizes: below the minimum, the minimum, the header plus the longest quote,
\* and one more. Quote sizes: below QuoteMin, QuoteMin, QuoteMax, above it,
\* and one whose sum with the header wraps the 32-bit size to 0.
Lens == {3, 4, 6, 7} \X {1, 2, 4, 5, 6}

PeerKeys == {1, 2}
Identities == {1, 2}

\* The calls a caller makes: the well-formed call base, and every call that
\* differs from it in one argument f, which takes any value of dom[f].
Deviate(base, dom) ==
    {base} \cup UNION { { [base EXCEPT ![f] = v] : v \in dom[f] }
                        : f \in DOMAIN dom }

InitDom == [context |-> {NULL, 10}, keygen |-> BOOLEAN]
InitValid == [context |-> 10, keygen |-> TRUE]

Msg1Dom ==
    [msg1 |-> FixPtrs, qe_target |-> FixPtrs, pub_key_b |-> FixPtrs,
     report |-> FixPtrs, nonce |-> FixPtrs, ga |-> {0} \cup PeerKeys, target |-> {1}]
Msg1Valid ==
    [msg1 |-> 8, qe_target |-> 10, pub_key_b |-> 12, report |-> 14,
     nonce |-> 16, ga |-> 1, target |-> 1]

Msg2Dom ==
    [qe_report |-> FixPtrs, msg2 |-> Ptrs, len |-> Lens, repx |-> {0, 1}]
Msg2Valid ==
    [qe_report |-> 8, msg2 |-> 10, len |-> <<SizeMsg2 + QuoteMin, QuoteMin>>,
     repx |-> 0]

Msg3Dom ==
    [msg3 |-> Ptrs, len |-> Lens, exp |-> {0, 2}, coll |-> {0, 1},
     qv |-> Verdicts, qve_nonce |-> FixPtrs, qve_report |-> FixPtrs,
     supp |-> {NULL, 4, 7, 17} \X {0, 2}, macx |-> MacSpace,
     ga |-> PeerKeys, quote |-> {0, 1} \X Identities]
Msg3Valid(ga) ==
    [msg3 |-> 10, len |-> <<SizeMsg3 + QuoteMin, QuoteMin>>, exp |-> 2,
     coll |-> 0, qv |-> "Ok", qve_nonce |-> 8, qve_report |-> 17,
     supp |-> <<NULL, 0>>, macx |-> 0, ga |-> ga, quote |-> <<0, 1>>]

IdDom == [qv_out |-> FixPtrs, id_out |-> FixPtrs]
IdValid == [qv_out |-> 8, id_out |-> 10]

KeysDom == [key_type |-> KeyTypes, key |-> FixPtrs]
KeysValid == [key_type |-> "SK", key |-> 8]

InitInputs == Deviate(InitValid, InitDom)
Msg1Inputs == Deviate(Msg1Valid, Msg1Dom)
Msg2Inputs == Deviate(Msg2Valid, Msg2Dom)
\* A well-formed message 3 echoes the key the session stored from message 1.
Msg3Inputs == [ga \in {0} \cup PeerKeys |->
                  Deviate(Msg3Valid(IF ga = 0 THEN 1 ELSE ga), Msg3Dom)]
IdInputs == Deviate(IdValid, IdDom)
KeysInputs == Deviate(KeysValid, KeysDom)

\* --------------------------------------------------------------- the state
VARIABLES
    sess,   \* context slot -> the Responder it holds
    hist,   \* context slot -> the protocol steps that returned Success
    call    \* the last boundary call: operation, slot, arguments, outcome

vars == <<sess, hist, call>>

Slots == DOMAIN sess
Live(h) == sess[h].state \notin {"None", "Closed"}
Steps == {"proc_msg1", "get_msg2", "proc_msg3"}

Call(op, h, in, pre, o) ==
    [op |-> op, h |-> h, in |-> in, pre |-> pre, status |-> o.status,
     invoked |-> o.invoked, reads |-> o.reads, writes |-> o.writes,
     val |-> o.val]

\* Variant that keeps one Responder for all contexts.
Record_Shared(op, h, in, o) ==
    /\ call' = Call(op, h, in, sess[h].state, o)
    /\ sess' = [g \in Slots |-> IF g = h \/ Live(g) THEN o.s ELSE sess[g]]
    /\ hist' = IF op \in Steps /\ o.status = "Success" /\ Len(hist[h]) < 4
               THEN [hist EXCEPT ![h] = Append(@, op)]
               ELSE hist

Record(op, h, in, o) ==
    /\ call' = Call(op, h, in, sess[h].state, o)
    /\ sess' = [sess EXCEPT ![h] = o.s]
    /\ hist' = IF op \in Steps /\ o.status = "Success" /\ Len(hist[h]) < 4
               THEN [hist EXCEPT ![h] = Append(@, op)]
               ELSE hist

NoCall ==
    [op |-> "none", h |-> 0, in |-> <<>>, pre |-> "None",
     status |-> "Success", invoked |-> FALSE, reads |-> {}, writes |-> {},
     val |-> <<>>]

Init ==
    /\ sess = [h \in 1..MaxCtx |-> NoResponder]
    /\ hist = [h \in 1..MaxCtx |-> <<>>]
    /\ call = NoCall

\* The allocator hands out the lowest slot never used.
NextSlot(h) ==
    /\ sess[h].state = "None"
    /\ \A g \in Slots : g < h => sess[g].state # "None"

DoInit ==
    \E h \in Slots : \E in \in InitInputs :
        /\ NextSlot(h)
        /\ Record("init", h, in, sgx_mra_responder_init(h, in))

DoProcMsg1 ==
    \E h \in Slots : \E in \in Msg1Inputs :
        /\ Live(h)
        /\ Record("proc_msg1", h, in, sgx_dcap_mra_proc_msg1(sess[h], in))

DoGetMsg2 ==
    \E h \in Slots : \E in \in Msg2Inputs :
        /\ Live(h)
        /\ Record("get_msg2", h, in, sgx_dcap_mra_get_msg2(sess[h], in))

DoProcMsg3 ==
    \E h \in Slots : \E in \in Msg3Inputs[sess[h].ga] :
        /\ Live(h)
        /\ Record("proc_msg3", h, in, sgx_dcap_mra_proc_msg3(sess[h], in))

DoGetPeerIdentity ==
    \E h \in Slots : \E in \in IdInputs :
        /\ Live(h)
        /\ Record("get_peer_identity", h, in,
                  sgx_mra_responder_get_peer_identity(sess[h], in))

DoGetKeys ==
    \E h \in Slots : \E in \in KeysInputs :
        /\ Live(h)
        /\ Record("get_keys", h, in, sgx_mra_responder_get_keys(sess[h], in))

DoClose ==
    \E h \in Slots :
        /\ Live(h)
        /\ Record("close", h, <<>>, sgx_mra_responder_close(sess[h]))

Next ==
    \/ DoInit
    \/ DoProcMsg1
    \/ DoGetMsg2
    \/ DoProcMsg3
    \/ DoGetPeerIdentity
    \/ DoGetKeys
    \/ DoClose

Spec == Init /\ [][Next]_vars

\* ---- calls on a handle that names no live context
\* The handles a caller can pass besides a live one: null, a slot never
\* handed out, a slot already closed.
DeadHandles == {NULL} \cup {h \in Slots : ~Live(h)}
StateOf(h) == IF h \in Slots THEN sess[h].state ELSE "None"
\* What from_raw finds behind such a handle: memory that holds no Responder.
Stale == DropResponder(NoResponder)

\* No operation validates context. Responder::from_raw(context) on a handle
\* that names no live context is undefined behaviour: the call ends the
\* enclave or returns with whatever status the stale memory yields.
RawStatuses == Statuses \cup {"Abort"}
Running == call.status # "Abort"

\* The pointer checks of the operation still come first: a call they reject
\* returns before from_raw. Any other call reaches from_raw. An abort takes
\* the enclave down, and every context with it.
Raw(op, h, in, o) ==
    /\ Running
    /\ UNCHANGED hist
    /\ IF ~o.invoked
       THEN /\ call' = Call(op, h, in, StateOf(h), o)
            /\ UNCHANGED sess
       ELSE \E st \in RawStatuses :
                /\ call' = [Call(op, h, in, StateOf(h), o)
                               EXCEPT !.status = st, !.writes = {},
                                      !.val = <<>>]
                /\ sess' = IF st = "Abort"
                           THEN [g \in Slots |-> DropResponder(sess[g])]
                           ELSE sess

\* The calls made on such a handle: the well-formed one, and one the pointer
\* checks reject.
RawInputs(valid, f) == {valid, [valid EXCEPT ![f] = NULL]}

RawProcMsg1 ==
    \E h \in DeadHandles : \E in \in RawInputs(Msg1Valid, "nonce") :
        Raw("proc_msg1", h, in, sgx_dcap_mra_proc_msg1(Stale, in))

RawGetMsg2 ==
    \E h \in DeadHandles : \E in \in RawInputs(Msg2Valid, "msg2") :
        Raw("get_msg2", h, in, sgx_dcap_mra_get_msg2(Stale, in))

RawProcMsg3 ==
    \E h \in DeadHandles : \E in \in RawInputs(Msg3Valid(1), "qve_report") :
        Raw("proc_msg3", h, in, sgx_dcap_mra_proc_msg3(Stale, in))

RawGetPeerIdentity ==
    \E h \in DeadHandles : \E in \in RawInputs(IdValid, "id_out") :
        Raw("get_peer_identity", h, in,
            sgx_mra_responder_get_peer_identity(Stale, in))

RawGetKeys ==
    \E h \in DeadHandles : \E in \in RawInputs(KeysValid, "key") :
        Raw("get_keys", h, in, sgx_mra_responder_get_keys(Stale, in))

RawClose ==
    \E h \in DeadHandles :
        Raw("close", h, <<>>, sgx_mra_responder_close(Stale))

\* The boundary as any caller can drive it, live handle or not.
NextRaw ==
    \/ Next
    \/ RawProcMsg1
    \/ RawGetMsg2
    \/ RawProcMsg3
    \/ RawGetPeerIdentity
    \/ RawGetKeys
    \/ RawClose

SpecRaw == Init /\ [][NextRaw]_vars

\* ---- two contexts side by side
PairSlots == {1, 2}

InitPair ==
    /\ sess = [h \in PairSlots |-> NoResponder]
    /\ hist = [h \in PairSlots |-> <<>>]
    /\ call = NoCall

\* The calls made on each of the two: the well-formed call, the calls the
\* session answers differently, and one call the pointer checks reject.
PairMsg1Inputs ==
    Deviate(Msg1Valid, [ga |-> {0} \cup PeerKeys, nonce |-> {NULL}])
PairMsg2Inputs == Deviate(Msg2Valid, [repx |-> {1}, msg2 |-> {NULL}])
PairMsg3Inputs ==
    [ga \in {0} \cup PeerKeys |->
        Deviate(Msg3Valid(IF ga = 0 THEN 1 ELSE ga),
                [macx |-> {1}, qv |-> Verdicts, quote |-> {0, 1} \X Identities,
                 msg3 |-> {NULL}])]
PairIdInputs == Deviate(IdValid, [id_out |-> {NULL}])
PairKeysInputs == Deviate(KeysValid, [key_type |-> KeyTypes, key |-> {NULL}])

PairProcMsg1 ==
    \E h \in Slots : \E in \in PairMsg1Inputs :
        /\ Live(h)
        /\ Record("proc_msg1", h, in, sgx_dcap_mra_proc_msg1(sess[h], in))

PairGetMsg2 ==
    \E h \in Slots : \E in \in PairMsg2Inputs :
        /\ Live(h)
        /\ Record("get_msg2", h, in, sgx_dcap_mra_get_msg2(sess[h], in))

PairProcMsg3 ==
    \E h \in Slots : \E in \in PairMsg3Inputs[sess[h].ga] :
        /\ Live(h)
        /\ Record("proc_msg3", h, in, sgx_dcap_mra_proc_msg3(sess[h], in))

PairGetPeerIdentity ==
    \E h \in Slots : \E in \in PairIdInputs :
        /\ Live(h)
        /\ Record("get_peer_identity", h, in,
                  sgx_mra_responder_get_peer_identity(sess[h], in))

PairGetKeys ==
    \E h \in Slots : \E in \in PairKeysInputs :
        /\ Live(h)
        /\ Record("get_keys", h, in, sgx_mra_responder_get_keys(sess[h], in))

NextPair ==
    \/ DoInit
    \/ PairProcMsg1
    \/ PairGetMsg2
    \/ PairProcMsg3
    \/ PairGetPeerIdentity
    \/ PairGetKeys
    \/ DoClose

SpecPair == InitPair /\ [][NextPair]_vars

\* =================================================================== claims
Last == call
After == sess[call.h]

\* The state each protocol step requires.
Required(op) ==
    CASE op = "proc_msg1" -> "Created"
      [] op = "get_msg2" -> "Msg1Processed"
      [] op = "proc_msg3" -> "Msg2Sent"

\* C1: a protocol step returns Success only from the state it requires, and
\* when its session operation is invoked in any other state of a live session
\* it returns InvalidState and leaves the state as it was.
C1_StepNeedsItsState ==
    Last.op \in Steps =>
        /\ Last.status = "Success" => Last.pre = Required(Last.op)
        /\ (Last.invoked /\ Last.pre # Required(Last.op)) =>
               /\ Last.status = "InvalidState"
               /\ After.state = Last.pre

C1_Witness ==
    /\ Last.op = "proc_msg3"
    /\ Last.invoked
    /\ Last.pre = "Msg1Processed"
    /\ Last.status = "InvalidState"

\* C2: no step moves a session to an earlier state; a protocol step that
\* returns Success advances its session by exactly one state, one that fails
\* leaves the state where it was; and a session in Msg3Verified has had
\* proc_msg1, get_msg2 and proc_msg3 succeed once each, in that order.
C2_StepEffect ==
    \A h \in Slots :
        /\ sess[h].state # "None" =>
               Rank(sess'[h].state) >= Rank(sess[h].state)
        /\ (call'.h = h /\ call'.op \in Steps /\ call'.status = "Success") =>
               Rank(sess'[h].state) = Rank(sess[h].state) + 1
        /\ (call'.h = h /\ call'.op \in Steps /\ call'.status # "Success") =>
               sess'[h].state = sess[h].state
        /\ call'.h # h => sess'[h] = sess[h]

C2_Monotonic ==
    /\ [](\A h \in Slots : sess[h].state = "Msg3Verified" =>
              hist[h] = <<"proc_msg1", "get_msg2", "proc_msg3">>)
    /\ [][C2_StepEffect]_vars

C2_Witness ==
    /\ Last.op = "proc_msg3"
    /\ Last.pre = "Msg2Sent"
    /\ After.state = "Msg3Verified"
    /\ hist[Last.h] = <<"proc_msg1", "get_msg2", "proc_msg3">>

\* The checks of message 3, stated on the arguments of the call and the
\* session s they were made against.
Msg3SizeExact(in) == in.len[1] = SizeMsg3 + in.len[2]
Msg3KeyEchoed(in, s) == in.ga = s.ga
Msg3MacRight(in, s) ==
    Msg3Of(s, in).mac = Hmac(DeriveKey(DhShared(s.b, s.ga), "SMK"),
                             Msg3Data(Msg3Of(s, in)))
Msg3VerdictAccepted(in) == in.qv \in AcceptedTiers
Msg3NotExpired(in) == in.exp >= Now
Msg3Bound(in, s) == Msg3Of(s, in).quote.rd = HashKeys(in.ga, s.b)

Msg3AllChecks(in, s) ==
    /\ Msg3SizeExact(in)
    /\ Msg3KeyEchoed(in, s)
    /\ Msg3MacRight(in, s)
    /\ Msg3VerdictAccepted(in)
    /\ Msg3NotExpired(in)
    /\ Msg3Bound(in, s)

\* C3: proc_msg3 moves a session from Msg2Sent to Msg3Verified only when, in
\* that call, the size is exact, the echoed key is the stored one, the MAC is
\* right, the verdict is accepted, the quote is not expired and its report
\* data is the bound hash; when one of them fails the state is still Msg2Sent.
C3_VerifiedOnlyIfAllChecks ==
    (Last.op = "proc_msg3" /\ Last.pre = "Msg2Sent") =>
        /\ After.state = "Msg3Verified" => Msg3AllChecks(Last.in, After)
        /\ ~Msg3AllChecks(Last.in, After) => After.state = "Msg2Sent"

C3_Witness ==
    /\ Last.op = "proc_msg3"
    /\ Last.pre = "Msg2Sent"
    /\ After.state = "Msg3Verified"
    /\ Msg3AllChecks(Last.in, After)

\* C4: get_keys whose session operation runs before Msg3Verified returns
\* InvalidState whatever the key type, and a key is written to the caller
\* only when the state is Msg3Verified.
C4_KeysWithheld ==
    Last.op = "get_keys" =>
        /\ (Last.invoked /\ Last.pre \in {"Created", "Msg1Processed", "Msg2Sent"})
               => Last.status = "InvalidState"
        /\ (Last.writes # {} \/ Last.status = "Success")
               => Last.pre = "Msg3Verified"

C4_Witness ==
    /\ Last.op = "get_keys"
    /\ Last.invoked
    /\ Last.pre = "Msg2Sent"
    /\ Last.in.key_type = "VK"
    /\ Last.status = "InvalidState"
    /\ Last.writes = {}

\* C5: in every state in which the peer identity of a live session is
\* populated, the session is in Msg3Verified.
C5_IdentityOnlyWhenVerified ==
    \A h \in Slots :
        (Live(h) /\ sess[h].id # 0) => sess[h].state = "Msg3Verified"

\* The arguments of a proc_msg3 call pass every boundary and size check.
Msg3Delivered(in) ==
    /\ ProcMsg3NullOk(in)
    /\ ProcMsg3SizeOk(in)
    /\ ProcMsg3RegionOk(in)
    /\ check_quote_len(in.len[2])
    /\ Msg3SizeExact(in)

SingleBit(x) == \E i \in 0..(MacBits - 1) : x = Pow2(i)

\* C6: in Msg2Sent, proc_msg3 with a MAC one bit off the right one and all
\* else valid returns MacVerifyFailed and the state is still Msg2Sent.
C6_MacBitFlip ==
    ( /\ Last.op = "proc_msg3"
      /\ Last.pre = "Msg2Sent"
      /\ Msg3Delivered(Last.in)
      /\ Msg3KeyEchoed(Last.in, After)
      /\ Msg3VerdictAccepted(Last.in)
      /\ Msg3NotExpired(Last.in)
      /\ Msg3Bound(Last.in, After)
      /\ SingleBit(Last.in.macx) ) =>
        /\ Last.status = "MacVerifyFailed"
        /\ After.state = "Msg2Sent"

C6_Witness ==
    /\ Last.op = "proc_msg3"
    /\ Last.pre = "Msg2Sent"
    /\ Last.in.macx = 2
    /\ Last.status = "MacVerifyFailed"
    /\ After.state = "Msg2Sent"

\* C7: in Msg2Sent, proc_msg3 with the right MAC and a verdict outside the
\* accepted tiers returns QuoteNotTrusted, and with an accepted verdict and a
\* passed expiration time QuoteExpired; the state is still Msg2Sent.
C7_TrustRejection ==
    ( /\ Last.op = "proc_msg3"
      /\ Last.pre = "Msg2Sent"
      /\ Msg3Delivered(Last.in)
      /\ Msg3KeyEchoed(Last.in, After)
      /\ Msg3MacRight(Last.in, After) ) =>
        /\ ~Msg3VerdictAccepted(Last.in) =>
               (Last.status = "QuoteNotTrusted" /\ After.state = "Msg2Sent")
        /\ (Msg3VerdictAccepted(Last.in) /\ ~Msg3NotExpired(Last.in)) =>
               (Last.status = "QuoteExpired" /\ After.state = "Msg2Sent")

C7_Witness ==
    /\ Last.op = "proc_msg3"
    /\ Last.pre = "Msg2Sent"
    /\ Last.in.macx = 0
    /\ Last.in.qv = "Revoked"
    /\ Last.status = "QuoteNotTrusted"
    /\ After.state = "Msg2Sent"

QuoteLenOut(in) == ~check_quote_len(in.len[2])

\* C8 as stated: a quote length outside the bounds makes get_msg2 return
\* InvalidQuote and proc_msg3 return SizeMismatch, the state not advancing.
C8_AsStated ==
    /\ (Last.op = "get_msg2" /\ QuoteLenOut(Last.in)) =>
           (Last.status = "InvalidQuote" /\ After.state = Last.pre)
    /\ (Last.op = "proc_msg3" /\ QuoteLenOut(Last.in)) =>
           (Last.status = "SizeMismatch" /\ After.state = Last.pre)

\* C8, amended: a quote length outside the bounds makes get_msg2 return
\* InvalidParameter, and proc_msg3 return SizeMismatch when the buffer passes
\* the pointer, minimum size and region checks and InvalidParameter when it
\* does not; the session operation is not invoked and the state stays.
C8_QuoteLenRejected ==
    /\ (Last.op = "get_msg2" /\ QuoteLenOut(Last.in)) =>
           /\ Last.status = "InvalidParameter"
           /\ ~Last.invoked
           /\ After.state = Last.pre
    /\ (Last.op = "proc_msg3" /\ QuoteLenOut(Last.in)) =>
           /\ Last.status =
                  (IF /\ ProcMsg3NullOk(Last.in)
                      /\ ProcMsg3SizeOk(Last.in)
                      /\ ProcMsg3RegionOk(Last.in)
                   THEN "SizeMismatch" ELSE "InvalidParameter")
           /\ ~Last.invoked
           /\ After.state = Last.pre

C8_Witness ==
    /\ Last.op = "get_msg2"
    /\ Last.pre = "Msg1Processed"
    /\ Last.in.len = <<SizeMsg2 + QuoteMax + 1, QuoteMax + 1>>
    /\ Last.status = "InvalidParameter"
    /\ After.state = "Msg1Processed"

HeaderOf(op) == IF op = "get_msg2" THEN SizeMsg2 ELSE SizeMsg3

\* C9: get_msg2 and proc_msg3 reach the session operation only when the
\* delivered size is the header size plus the declared quote_size; with any
\* other size the call is rejected and the session state is as before.
C9_ExactSize ==
    Last.op \in {"get_msg2", "proc_msg3"} =>
        /\ Last.invoked =>
               Last.in.len[1] = HeaderOf(Last.op) + Last.in.len[2]
        /\ Last.in.len[1] # HeaderOf(Last.op) + Last.in.len[2] =>
               /\ Last.status # "Success"
               /\ ~Last.invoked
               /\ After.state = Last.pre

C9_Witness ==
    /\ Last.op = "get_msg2"
    /\ Last.pre = "Msg1Processed"
    /\ check_quote_len(Last.in.len[2])
    /\ Last.in.len[1] > SizeMsg2 + Last.in.len[2]
    /\ Last.status = "InvalidParameter"
    /\ After.state = "Msg1Processed"

\* The caller buffers a call hands over to be read.
InBufs(op, in) ==
    CASE op = "proc_msg1" ->
             {Buf("msg1", in.msg1, SizeMsg1),
              Buf("qe_target", in.qe_target, SizeTargetInfo)}
      [] op = "get_msg2" ->
             {Buf("msg2", in.msg2, in.len[1]),
              Buf("qe_report", in.qe_report, SizeReport)}
      [] op = "proc_msg3" ->
             {Buf("msg3", in.msg3, in.len[1]),
              Buf("qve_nonce", in.qve_nonce, SizeNonce),
              Buf("qve_report", in.qve_report, SizeReport)}
             \cup (IF in.supp[1] # NULL
                   THEN {Buf("supplemental_data", in.supp[1], in.supp[2])}
                   ELSE {})
      [] OTHER -> {}

\* C10 as stated: every buffer a call reads lies entirely inside the enclave.
C10_AsStated ==
    \A b \in Last.reads : is_within_enclave(b.p, b.n)

\* Where a buffer may lie: inside the enclave, or, for the message 2 and
\* message 3 buffers, entirely outside it.
Permitted(b) ==
    \/ is_within_enclave(b.p, b.n)
    \/ (b.buf \in {"msg2", "msg3"} /\ is_within_host(b.p, b.n))

\* C10, amended: every buffer a call reads lies entirely inside the enclave,
\* except the message 2 and message 3 buffers, which lie entirely inside or
\* entirely outside it; a call handed a buffer that lies elsewhere (null,
\* straddling the edge, wrapping the address space, or outside for the other
\* buffers) returns InvalidParameter and does not read that buffer.
C10_ReadsChecked ==
    /\ \A b \in Last.reads : Permitted(b)
    /\ \A b \in InBufs(Last.op, Last.in) :
           ~Permitted(b) =>
               /\ Last.status = "InvalidParameter"
               /\ \A r \in Last.reads : r.buf # b.buf

C10_Witness ==
    /\ Last.op = "proc_msg3"
    /\ Last.in.msg3 = 7
    /\ ~Permitted(Buf("msg3", Last.in.msg3, Last.in.len[1]))
    /\ Last.status = "InvalidParameter"
    /\ Last.reads = {}

\* C11: every boundary operation returns a status code for every malformed
\* input, a null or never-created context handle included: no such call ends
\* in an abort, and none reaches the session behind a handle that names no
\* context. (A call on a closed handle is left undefined and is not judged.)
C11_AsStated ==
    Last.pre # "Closed"
        => /\ Last.status \in Statuses
           /\ (Last.invoked /\ Last.op \notin {"none", "init"}
                   => Last.pre # "None")

\* C12: close on a live session, whatever its state (Created, Msg1Processed,
\* Msg2Sent, Msg3Verified), returns Success and leaves the session Closed;
\* a Closed session holds no private key, no shared secret and no derived
\* key.
C12_CloseErases ==
    /\ (Last.op = "close" /\ Last.pre \notin {"None", "Closed"}
            => Last.status = "Success" /\ After.state = "Closed")
    /\ \A h \in Slots :
           sess[h].state = "Closed"
               => /\ sess[h].b = 0
                  /\ sess[h].shared = 0
                  /\ sess[h].smk = 0
                  /\ sess[h].keys = <<0, 0, 0>>

C12_Witness ==
    /\ Last.op = "close"
    /\ Last.pre = "Msg3Verified"
    /\ After.state = "Closed"

C13_Answer ==
    Last.op = "get_peer_identity" /\ Last.invoked
        => IF Last.pre # "Msg3Verified"
           THEN Last.status = "InvalidState" /\ Last.val = <<>>
           ELSE Last.status = "Success" /\ Last.val = <<After.qv, After.id>>

C13_Frame ==
    /\ (call'.op = "get_peer_identity" => sess' = sess /\ hist' = hist)
    /\ \A h \in Slots :
           sess[h].state = "Msg3Verified" /\ sess'[h].state = "Msg3Verified"
               => sess'[h].qv = sess[h].qv /\ sess'[h].id = sess[h].id

\* C13: get_peer_identity reached in a state other than Msg3Verified fails
\* with InvalidState and delivers nothing; in Msg3Verified it succeeds and
\* delivers the (verdict, identity) the session holds. It is a pure read: the
\* call changes no session, and the pair a verified session holds never
\* changes, so repeated calls deliver the same pair.
C13_IdentityPureRead == [](C13_Answer) /\ [][C13_Frame]_vars

C13_Witness ==
    /\ Last.op = "get_peer_identity"
    /\ Last.status = "Success"
    /\ Last.val = <<"SwHardeningNeeded", 1>>

C14_Answer ==
    Last.op = "get_keys" /\ Last.status = "Success"
        => /\ Last.pre = "Msg3Verified"
           /\ After.shared = DhShared(After.b, After.ga)
           /\ Last.val = <<DeriveKey(After.shared, Last.in.key_type)>>

C14_Distinct ==
    \A h \in Slots :
        sess[h].state = "Msg3Verified"
            => \A i, j \in 1..3 : i # j => sess[h].keys[i] # sess[h].keys[j]

C14_Frame ==
    /\ (call'.op = "get_keys" => sess' = sess /\ hist' = hist)
    /\ \A h \in Slots :
           sess[h].state = "Msg3Verified" /\ sess'[h].state = "Msg3Verified"
               => /\ sess'[h].keys = sess[h].keys
                  /\ sess'[h].shared = sess[h].shared

\* C14: a successful get_keys is made on a Msg3Verified session and delivers
\* the key derived from the session's one shared secret under the label of
\* the requested type; the keys of the three types differ from each other;
\* get_keys changes no session, and neither the shared secret nor the keys
\* of a session that stays Msg3Verified ever change, so every call for one
\* type delivers the same value whatever calls are interleaved.
C14_KeysStable == [](C14_Answer /\ C14_Distinct) /\ [][C14_Frame]_vars

C14_Witness ==
    /\ Last.op = "get_keys"
    /\ Last.status = "Success"
    /\ Last.in.key_type = "MK"
    /\ Last.val = <<DeriveKey(DhShared(EcKeyGen(1), 1), "MK")>>

\* The caller buffers a call hands over to be written.
OutBufs(op, in) ==
    CASE op = "proc_msg1" ->
             {Buf("pub_key_b", in.pub_key_b, SizeEcKey),
              Buf("report", in.report, SizeReport),
              Buf("nonce", in.nonce, SizeNonce)}
      [] op = "get_peer_identity" ->
             {Buf("quote_verification_result", in.qv_out, SizeQvResult),
              Buf("enclave_identity", in.id_out, SizeIdentity)}
      [] op = "get_keys" -> {Buf("key", in.key, SizeKey128)}
      [] OTHER -> {}

BufsValid(op, in) ==
    \A b \in InBufs(op, in) \cup OutBufs(op, in) : b.p # NULL /\ Permitted(b)

\* All inputs of a call on session s valid.
InputsValid(op, in, s) ==
    CASE op = "init" -> in.context # NULL /\ in.keygen
      [] op = "proc_msg1" -> BufsValid(op, in) /\ in.ga # 0
      [] op = "get_msg2" ->
             /\ BufsValid(op, in)
             /\ check_quote_len(in.len[2])
             /\ in.len[1] = SizeMsg2 + in.len[2]
             /\ in.repx = 0
      [] op = "proc_msg3" ->
             /\ BufsValid(op, in)
             /\ (in.supp[1] = NULL) = (in.supp[2] = 0)
             /\ check_quote_len(in.len[2])
             /\ Msg3AllChecks(in, s)
      [] op \in {"get_peer_identity", "get_keys"} -> BufsValid(op, in)
      [] op = "close" -> TRUE
      [] OTHER -> FALSE

\* The state the happy path makes each call in, and the one it leaves.
HappyPre(op) ==
    CASE op = "init" -> {"None"}
      [] op \in Steps -> {Required(op)}
      [] op \in {"get_peer_identity", "get_keys"} -> {"Msg3Verified"}
      [] op = "close" -> {"Created", "Msg1Processed", "Msg2Sent", "Msg3Verified"}
      [] OTHER -> {}
HappyPost(op, pre) ==
    CASE op = "init" -> "Created"
      [] op = "proc_msg1" -> "Msg1Processed"
      [] op = "get_msg2" -> "Msg2Sent"
      [] op = "proc_msg3" -> "Msg3Verified"
      [] op = "close" -> "Closed"
      [] OTHER -> pre

\* C15: with all inputs valid, each call of the sequence init, proc_msg1,
\* get_msg2, proc_msg3 made in its turn returns Success and moves the session
\* on, ending in Msg3Verified; there get_peer_identity and get_keys return
\* Success, and close returns Success.
C15_HappyPath ==
    (Last.pre \in HappyPre(Last.op) /\ InputsValid(Last.op, Last.in, After))
        => /\ Last.status = "Success"
           /\ After.state = HappyPost(Last.op, Last.pre)

C15_Witness ==
    /\ Last.op = "close"
    /\ Last.pre = "Msg3Verified"
    /\ Last.status = "Success"
    /\ hist[Last.h] = <<"proc_msg1", "get_msg2", "proc_msg3">>

\* What a call yields on session s when no other session exists.
Alone(op, s, in) ==
    CASE op = "proc_msg1" -> sgx_dcap_mra_proc_msg1(s, in)
      [] op = "get_msg2" -> sgx_dcap_mra_get_msg2(s, in)
      [] op = "proc_msg3" -> sgx_dcap_mra_proc_msg3(s, in)
      [] op = "get_peer_identity" -> sgx_mra_responder_get_peer_identity(s, in)
      [] op = "get_keys" -> sgx_mra_responder_get_keys(s, in)
      [] op = "close" -> sgx_mra_responder_close(s)

C16_Step ==
    /\ \A g \in Slots :
           g # call'.h => sess'[g] = sess[g] /\ hist'[g] = hist[g]
    /\ call'.op # "init" =>
           LET o == Alone(call'.op, sess[call'.h], call'.in)
           IN /\ call'.status = o.status
              /\ call'.val = o.val
              /\ call'.writes = o.writes
              /\ sess'[call'.h] = o.s
    /\ call'.op = "init" /\ call'.status = "Success" =>
           sess'[call'.h] = NewResponder(call'.h)

C16_OwnKeys ==
    \A g, h \in Slots :
        (g # h /\ Live(g) /\ Live(h)) => sess[g].b # sess[h].b

\* C16: two sessions share no mutable state. In every interleaving of calls
\* on two sessions, a call on one leaves the other session as it was, and its
\* status, its delivered values and the session it leaves are those the call
\* yields on that session alone; two live sessions hold different key pairs.
C16_Independent == [](C16_OwnKeys) /\ [][C16_Step]_vars

C16_Witness ==
    /\ sess[1].state = "Msg3Verified"
    /\ sess[2].state = "Msg1Processed"
    /\ sess[1].ga # sess[2].ga
    /\ Last.op = "proc_msg1"
    /\ Last.h = 2
    /\ Last.status = "Success"

\* A call the boundary has to reject: a null pointer, a buffer out of its
\* region, a size below header plus minimum quote, a size that is not header
\* plus declared quote, a quote size out of range, or a supplemental-data
\* pointer and size that disagree.
Malformed(op, in) ==
    \/ \E b \in InBufs(op, in) \cup OutBufs(op, in) :
           b.p = NULL \/ ~Permitted(b)
    \/ op = "init" /\ in.context = NULL
    \/ /\ op \in {"get_msg2", "proc_msg3"}
       /\ in.len[1] < HeaderOf(op) + SizeQuote3
    \/ /\ op = "get_msg2"
       /\ (~check_quote_len(in.len[2]) \/ in.len[1] # SizeMsg2 + in.len[2])
    \/ op = "proc_msg3" /\ (in.supp[1] = NULL) # (in.supp[2] = 0)

C17_Step ==
    (call'.op # "none" /\ (\/ Malformed(call'.op, call'.in)
                           \/ call'.status = "InvalidParameter"))
        => /\ call'.status = "InvalidParameter"
           /\ ~call'.invoked
           /\ sess' = sess
           /\ hist' = hist

\* C17: the pointer, size and region checks of a boundary operation come
\* before the session is touched: a call with a null pointer, a buffer out of
\* its region, a size below header plus minimum quote, a size mismatch or a
\* disagreeing supplemental-data pointer and size returns InvalidParameter,
\* and a call that returns InvalidParameter has not invoked the session
\* operation and leaves every session as it was.
C17_ChecksBeforeSession == [][C17_Step]_vars

C17_Witness ==
    /\ Last.op = "proc_msg3"
    /\ Last.pre = "Msg2Sent"
    /\ Last.in.supp = <<NULL, 2>>
    /\ Last.status = "InvalidParameter"
    /\ ~Last.invoked
    /\ After.state = "Msg2Sent"

\* Step a is in the trace, and wherever step b is, a comes before it.
Has(tr, a) == \E i \in 1..Len(tr) : tr[i] = a
Precedes(tr, a, b) ==
    \A i \in 1..Len(tr) : tr[i] = b => \E j \in 1..(i - 1) : tr[j] = a

\* C18: no untrusted length is used before it is checked. In get_msg2 and
\* proc_msg3 the buffer size is checked against address overflow and against
\* header plus minimum quote before the region test, before any read of the
\* buffers and before any slice; a call that goes past the check has a size
\* that passes both. In get_msg2 the declared quote_size is range-checked
\* before it is added to the header size and before the quote slice is
\* formed, and the sum that is formed does not wrap. The session is reached
\* only at the end of the trace.
C18_LengthsChecked ==
    Last.op \in {"get_msg2", "proc_msg3"} =>
        LET tr == TraceOf(Last.op, Last.in)
            ptr == IF Last.op = "get_msg2" THEN Last.in.msg2 ELSE Last.in.msg3
        IN /\ \A e \in {"region", "read", "slice", "parse", "add", "session"} :
                  Precedes(tr, "size", e)
           /\ Has(tr, "region") =>
                  /\ ptr + Last.in.len[1] <= UsizeMax
                  /\ Last.in.len[1] >= HeaderOf(Last.op) + SizeQuote3
           /\ Last.op = "get_msg2" =>
                  /\ Precedes(tr, "range", "add")
                  /\ Precedes(tr, "range", "slice")
                  /\ Has(tr, "add") => SizeMsg2 + Last.in.len[2] <= U32Max
           /\ Last.invoked = Has(tr, "session")

C18_Witness ==
    /\ Last.op = "get_msg2"
    /\ SizeMsg2 + Last.in.len[2] > U32Max
    /\ TraceOf(Last.op, Last.in) = <<"null", "size", "region", "read", "range">>
    /\ Last.status = "InvalidParameter"

\* C19: a boundary call that returns a status other than Success stores
\* nothing through the caller's output pointers: proc_msg1 leaves pub_key_b,
\* report and nonce alone, get_msg2 the header of msg2, get_peer_identity the
\* verdict and the identity, get_keys the key buffer, init the context slot;
\* it delivers no value and, for init, creates no session.
C19_NoWriteOnFailure ==
    Last.status # "Success" =>
        /\ Last.writes = {}
        /\ Last.val = <<>>
        /\ Last.op = "init" => After.state = "None"

C19_Witness ==
    /\ Last.op = "get_msg2"
    /\ Last.invoked
    /\ Last.status = "ReportMismatch"
    /\ Last.writes = {}

\* The contexts that are live.
LiveSet == {h \in Slots : Live(h)}

C20_Step ==
    /\ CASE call'.op = "init" /\ call'.status = "Success" ->
                /\ sess[call'.h].state = "None"
                /\ LiveSet' = LiveSet \cup {call'.h}
          [] call'.op = "close" ->
                /\ call'.status = "Success"
                /\ call'.h \in LiveSet
                /\ LiveSet' = LiveSet \ {call'.h}
          [] OTHER -> LiveSet' = LiveSet
    /\ \A h \in LiveSet \cap LiveSet' : sess'[h].b = sess[h].b
    /\ \A h \in Slots : sess[h].state = "Closed" => sess'[h].state = "Closed"

\* C20: only close releases a context. A successful init makes one more
\* context live, a close makes the context it is given, and no other, not
\* live, once and for good; every other call, successful or failed, a failed
\* init included, leaves the set of live contexts as it was, each one behind
\* its handle with its own key pair. So the live contexts are those of the
\* successful inits less those closed.
C20_OnlyCloseReleases == [][C20_Step]_vars

C20_Witness ==
    /\ sess[1].state = "Closed"
    /\ sess[2].state = "Msg2Sent"
    /\ Last.op = "get_keys"
    /\ Last.h = 2
    /\ Last.status = "InvalidState"

====
